---- MODULE Spec2Model ----
(***************************************************************************)
(* PyLogDecorate/log.py: the call interceptor (LogCallBase / LogCall) and  *)
(* the instance binder (LogClass).                                         *)
(*                                                                         *)
(* SpecCall drives one wrapped callable through wrapped_f, one statement   *)
(* group per action.  SpecBind defines a small class hierarchy, applies    *)
(* LogClass objects to it and constructs instances.                        *)
(***************************************************************************)
EXTENDS Integers, Sequences, FiniteSets, TLC

VARIABLES
    \* ---- call interceptor ----
    pc,         \* position inside wrapped_f
    wrapped,    \* the callable produced by hook (with its markers)
    args,       \* shape of the positional arguments of the running call
    logger,     \* local 'logger' of wrapped_f
    classfn,    \* local 'classfn' of wrapped_f
    result,     \* local 'result' of wrapped_f
    err,        \* local 'err' of wrapped_f
    frame,      \* TRUE iff local 'frame' is bound
    inflight,   \* exception propagating through the second try statement
    outcome,    \* what the caller of wrapped_f observes
    fout,       \* what the original callable did in this invocation
    events,     \* trace_in / fn / trace_out / log_f, in order of occurrence
    logres,     \* the 'result' argument handed to log_f
    \* ---- instance binder ----
    defined,    \* number of classes defined so far
    cls,        \* class objects: own __dict__ entries the binder reads/writes
    deco,       \* LogClass objects: args and original_init
    inst        \* the last constructed instance and what its construction did

callvars == <<pc, wrapped, args, logger, classfn, result, err, frame,
              inflight, outcome, fout, events, logres>>
bindvars == <<defined, cls, deco, inst>>
vars == <<callvars, bindvars>>

----------------------------------------------------------------------------
(* Policies: the 'args' dictionaries of the decorators.  A dictionary is a *)
(* function from the keys it contains to strings; None is kept apart from  *)
(* the empty dictionary.                                                   *)

NoneArgs == [none |-> TRUE, map |-> [k \in {} |-> ""]]

Dict(keys, val) == [none |-> FALSE, map |-> [k \in keys |-> val[k]]]

EmptyDict == Dict({}, [k \in {} |-> ""])

\* 'not dic'
Falsy(dic) == dic.none \/ DOMAIN dic.map = {}

keyIsTrue(dic, key) ==
    IF Falsy(dic) THEN FALSE
    ELSE IF key \in DOMAIN dic.map /\ dic.map[key] = "True" THEN TRUE
    ELSE FALSE

haskey(dic, key) ==
    IF Falsy(dic) THEN FALSE
    ELSE key \in DOMAIN dic.map

\* LogCallBase.__init__: a falsy args becomes {}
LogCallBase_init(a) == IF Falsy(a) THEN EmptyDict ELSE a

----------------------------------------------------------------------------
(* Exceptions.  'truthy' is bool(e) (a class may define __bool__/__len__); *)
(* 'isExc' tells a subclass of Exception from a bare BaseException such as *)
(* SystemExit or KeyboardInterrupt.                                        *)

NoExc == [src |-> "none", truthy |-> FALSE, isExc |-> FALSE]

Raisable(src) == {[src |-> src, truthy |-> t, isExc |-> x] : t \in BOOLEAN, x \in BOOLEAN}

\* what str(getattr(instance, traceattr, "")) or logger.debug may raise
TraceRaisable(src) == {e \in Raisable(src) : e.isExc /\ e.truthy}

\* ValueError of sys._getframe, UnboundLocalError of 'del frame'
FrameError == [src |-> "getframe", truthy |-> TRUE, isExc |-> TRUE]
UnboundLocalError == [src |-> "delframe", truthy |-> TRUE, isExc |-> TRUE]

FnValues == {"v1", "v2"}
Sentinel == "CRASHED"

NoOutcome == [kind |-> "none", val |-> "", exc |-> NoExc]
Returned(v) == [kind |-> "returned", val |-> v, exc |-> NoExc]
Raised(e) == [kind |-> "raised", val |-> "", exc |-> e]

----------------------------------------------------------------------------
(* LogCallBase.hook                                                        *)

Unwrapped == [kind |-> "plain", fn |-> 0, self |-> NoneArgs,
              subdecorate |-> FALSE, loghook |-> FALSE]

hook(self, fn) ==
    [kind |-> "wrapped", fn |-> fn, self |-> self,
     subdecorate |-> keyIsTrue(self, "subdecorate"), loghook |-> TRUE]

CallPolicies ==
    {NoneArgs} \cup
    {Dict(ks, [k \in {"subdecorate", "tracename", "traceattr"} |->
                 IF k = "subdecorate" THEN sd ELSE "x"]) :
        ks \in SUBSET {"subdecorate", "tracename", "traceattr"},
        sd \in {"True", "False"}}

ArgShapes == {"noargs", "first_has_logger", "first_plain"}

\* trace_in / trace_out emit iff both options are present
Tracing(self) == haskey(self, "tracename") /\ haskey(self, "traceattr")

----------------------------------------------------------------------------
(* The call interceptor: LogCallBase.__call__ and wrapped_f                *)

CallInit ==
    /\ pc = "idle"
    /\ wrapped = Unwrapped
    /\ args = "noargs"
    /\ logger = "unset"
    /\ classfn = FALSE
    /\ result = "unset"
    /\ err = NoExc
    /\ frame = FALSE
    /\ inflight = NoExc
    /\ outcome = NoOutcome
    /\ fout = NoOutcome
    /\ events = <<>>
    /\ logres = "unset"

\* @LogCall(p) def f(...): LogCallBase.__init__, then __call__ -> hook(fn)
Decorate(p) ==
    /\ pc = "idle"
    /\ wrapped' = hook(LogCallBase_init(p), 0)
    /\ UNCHANGED <<pc, args, logger, classfn, result, err, frame, inflight,
                   outcome, fout, events, logres>>

\* logger resolution of wrapped_f: type(args[0]) is a class for every object,
\* so classfn is set whenever a positional argument is present
Resolve(a) ==
    IF a # "noargs"
    THEN [classfn |-> TRUE,
          logger |-> IF a = "first_has_logger" THEN "args0.logger"
                     ELSE "module.function"]
    ELSE [classfn |-> FALSE, logger |-> "module"]

Invoke(a) ==
    /\ pc = "idle"
    /\ wrapped.kind = "wrapped"
    /\ args' = a
    /\ err' = NoExc
    /\ classfn' = Resolve(a).classfn
    /\ logger' = Resolve(a).logger
    /\ result' = "unset"
    /\ frame' = FALSE
    /\ inflight' = NoExc
    /\ outcome' = NoOutcome
    /\ fout' = NoOutcome
    /\ events' = <<>>
    /\ logres' = "unset"
    /\ pc' = "trace_in"
    /\ UNCHANGED wrapped

\* 'except Exception as e' of the first try statement; anything that is not
\* an Exception leaves wrapped_f at once
Caught_SkipLog(e) ==
    /\ result' = Sentinel
    /\ err' = e
    /\ pc' = "finally"
    /\ UNCHANGED outcome

Caught(e) ==
    /\ result' = Sentinel
    /\ err' = e
    /\ pc' = "getframe"
    /\ UNCHANGED outcome

Escapes(e) ==
    /\ outcome' = Raised(e)
    /\ pc' = "done"
    /\ UNCHANGED <<result, err>>

FirstTryRaises(e) == IF e.isExc THEN Caught(e) ELSE Escapes(e)

\* if classfn: self.trace_in(logger, args[0])
TraceIn ==
    /\ pc = "trace_in"
    /\ IF classfn /\ Tracing(wrapped.self)
       THEN \/ /\ events' = Append(events, "trace_in")
               /\ pc' = "call"
               /\ UNCHANGED <<result, err, outcome>>
            \/ /\ \E e \in TraceRaisable("trace_in") : FirstTryRaises(e)
               /\ UNCHANGED events
       ELSE /\ pc' = "call"
            /\ UNCHANGED <<result, err, outcome, events>>
    /\ UNCHANGED <<wrapped, args, logger, classfn, frame, inflight, fout, logres>>

\* result = fn(*args)
CallFn ==
    /\ pc = "call"
    /\ events' = Append(events, "fn")
    /\ \/ \E v \in FnValues :
            /\ fout' = Returned(v)
            /\ result' = v
            /\ pc' = "trace_out"
            /\ UNCHANGED <<err, outcome>>
       \/ \E e \in Raisable("fn") :
            /\ fout' = Raised(e)
            /\ FirstTryRaises(e)
    /\ UNCHANGED <<wrapped, args, logger, classfn, frame, inflight, logres>>

\* if classfn: self.trace_out(logger, args[0])
TraceOut ==
    /\ pc = "trace_out"
    /\ IF classfn /\ Tracing(wrapped.self)
       THEN \/ /\ events' = Append(events, "trace_out")
               /\ pc' = "getframe"
               /\ UNCHANGED <<result, err, outcome>>
            \/ /\ \E e \in TraceRaisable("trace_out") : FirstTryRaises(e)
               /\ UNCHANGED events
       ELSE /\ pc' = "getframe"
            /\ UNCHANGED <<result, err, outcome, events>>
    /\ UNCHANGED <<wrapped, args, logger, classfn, frame, inflight, fout, logres>>

\* frame = sys._getframe(1)
GetFrame ==
    /\ pc = "getframe"
    /\ \/ /\ frame' = TRUE
          /\ pc' = "log_f"
          /\ UNCHANGED inflight
       \/ /\ inflight' = FrameError
          /\ pc' = "except"
          /\ UNCHANGED frame
    /\ UNCHANGED <<wrapped, args, logger, classfn, result, err, outcome,
                   fout, events, logres>>

\* self.log_f(logger, frame, fn, args, {}, result)
LogF ==
    /\ pc = "log_f"
    /\ events' = Append(events, "log_f")
    /\ logres' = result
    /\ \/ /\ pc' = "finally"
          /\ UNCHANGED inflight
       \/ \E e \in Raisable("log_f") :
            /\ inflight' = e
            /\ pc' = IF e.isExc THEN "except" ELSE "finally"
    /\ UNCHANGED <<wrapped, args, logger, classfn, result, err, frame,
                   outcome, fout>>

\* except Exception as e: del frame; err = e; raise e
Except ==
    /\ pc = "except"
    /\ IF frame
       THEN /\ frame' = FALSE
            /\ err' = inflight
            /\ UNCHANGED inflight
       ELSE \* 'del frame' on the unbound local raises before 'err = e'
            /\ inflight' = UnboundLocalError
            /\ UNCHANGED <<frame, err>>
    /\ pc' = "finally"
    /\ UNCHANGED <<wrapped, args, logger, classfn, result, outcome, fout,
                   events, logres>>

\* finally: if err: raise err / else: return result
\* (either statement discards an exception that is propagating)
Finally ==
    /\ pc = "finally"
    /\ outcome' = IF err.truthy THEN Raised(err) ELSE Returned(result)
    /\ pc' = "done"
    /\ UNCHANGED <<wrapped, args, logger, classfn, result, err, frame,
                   inflight, fout, events, logres>>

\* control is back in the caller
Resume ==
    /\ pc = "done"
    /\ pc' = "idle"
    /\ UNCHANGED <<wrapped, args, logger, classfn, result, err, frame,
                   inflight, outcome, fout, events, logres>>

----------------------------------------------------------------------------
(* The instance binder: classes, LogClass objects, construction            *)

MaxClasses == 3     \* classes defined in one run
MaxCtorClasses == 2 \* classes defined in a run that also constructs instances
MaxDecos == 2       \* LogClass objects created in one run
MaxDepth == 8       \* nesting of constructor calls followed in one construction

Classes == 1..MaxClasses
Decos == 1..MaxDecos

\* functions that can be a class's __init__
NoFn == [kind |-> "none", k |-> 0, d |-> 0]
ObjectInit == [kind |-> "object", k |-> 0, d |-> 0]
UserInit(k) == [kind |-> "user", k |-> k, d |-> 0]
\* the closure _init created by LogClass object d when applied to class k
InitClosure(k, d) == [kind |-> "_init", k |-> k, d |-> d]

NoMember == [kind |-> "none", fn |-> 0, self |-> NoneArgs,
             subdecorate |-> FALSE, loghook |-> FALSE]
PlainMember(k) == [kind |-> "plain", fn |-> k, self |-> NoneArgs,
                   subdecorate |-> FALSE, loghook |-> FALSE]

\* loggers: logging.getLogger(module + "." + class name) is one object per name
NoLogger == [name |-> "none", k |-> 0]
getLogger(k) == [name |-> "class", k |-> k]

One(key, val) == Dict({key}, [k \in {key} |-> val])

\* policies given to LogClass where instances are constructed
CtorPolicies ==
    {NoneArgs, EmptyDict, One("level", "WARNING"), One("inherit_logger", "True"),
     One("inherit_logger", "False")}

\* policies given to LogClass where members are propagated
MemberPolicies == {NoneArgs, One("subdecorate", "True"), One("subdecorate", "False")}

MethodPolicies == {NoneArgs, One("subdecorate", "True")}

\* how the class body defines __init__: not at all, without calling the
\* parent's, or calling the parent's
UserInitKinds == {"none", "nosuper", "super"}

NoClass == [parent |-> 0, userinit |-> "none", init |-> NoFn, m |-> NoMember,
            mdef |-> "none", loghook |-> 0, subdecorate |-> 0,
            before |-> NoFn, inherited |-> FALSE, ppolicy |-> NoneArgs,
            bound |-> NoneArgs]

NoDeco == [created |-> FALSE, args |-> NoneArgs, original_init |-> NoFn]

NoInst == [k |-> 0, a |-> "", logger |-> NoLogger, levels |-> {},
           raised |-> "none", ran |-> <<>>, steps |-> <<>>]

CtorArgs == {"a1"}

\* attribute lookup along the (single-inheritance) MRO
RECURSIVE GetInit(_, _)
GetInit(c, k) ==
    IF k = 0 THEN ObjectInit
    ELSE IF c[k].init.kind # "none" THEN c[k].init
    ELSE GetInit(c, c[k].parent)

RECURSIVE GetLoghook(_, _)
GetLoghook(c, k) ==
    IF k = 0 THEN 0
    ELSE IF c[k].loghook # 0 THEN c[k].loghook
    ELSE GetLoghook(c, c[k].parent)

RECURSIVE GetSubdecorate(_, _)
GetSubdecorate(c, k) ==
    IF k = 0 THEN 0
    ELSE IF c[k].subdecorate # 0 THEN c[k].subdecorate
    ELSE GetSubdecorate(c, c[k].parent)

RECURSIVE GetMember(_, _)
GetMember(c, k) ==
    IF k = 0 THEN NoMember
    ELSE IF c[k].m.kind # "none" THEN c[k].m
    ELSE GetMember(c, c[k].parent)

BindInit ==
    /\ defined = 0
    /\ cls = [k \in Classes |-> NoClass]
    /\ deco = [d \in Decos |-> NoDeco]
    /\ inst = NoInst

\* class K(P): ... with an optional __init__ and an optional member m, which
\* the class body may have wrapped with @LogCall(p)
DefineClass(par, ui, mem) ==
    /\ defined < MaxClasses
    /\ par \in {0, defined}
    /\ LET k == defined + 1 IN
       /\ defined' = k
       /\ cls' = [cls EXCEPT ![k] =
                    [NoClass EXCEPT
                       !.parent = par,
                       !.userinit = ui,
                       !.init = IF ui = "none" THEN NoFn ELSE UserInit(k),
                       !.m = IF mem.kind = "none" THEN NoMember
                             ELSE [mem EXCEPT !.fn = k],
                       !.mdef = mem.kind]]
    /\ inst' = NoInst
    /\ UNCHANGED deco

Members ==
    {NoMember, PlainMember(0)} \cup {hook(LogCallBase_init(p), 0) : p \in MethodPolicies}

\* LogClass.__init__; the objects are numbered in the order of their creation
\* and a new one is created once the earlier ones have been applied
NewLogClass(d, a) ==
    /\ ~deco[d].created
    /\ \A e \in 1..(d - 1) : deco[e].created /\ deco[e].original_init # NoFn
    /\ deco' = [deco EXCEPT ![d] = [created |-> TRUE, args |-> a,
                                    original_init |-> NoFn]]
    /\ UNCHANGED <<defined, cls, inst>>

EffectiveArgs_KeepOwn(own, parentHooked, parentArgs) == own

\* self.args after the parent test of LogClass.__call__
EffectiveArgs(own, parentHooked, parentArgs) ==
    IF parentHooked /\ Falsy(own) THEN parentArgs ELSE own

\* the loop over parent.__dict__ of LogClass.__call__, for the member m
Subdecorated(c, k) ==
    LET par == c[k].parent
        fn == c[par].m
        mine == GetMember(c, k)
    IN  IF /\ par # 0
           /\ GetSubdecorate(c, par) # 0
           /\ fn.kind # "none"
           /\ fn.subdecorate
           /\ mine.kind # "none"
           /\ ~mine.loghook
        THEN hook(fn.self, mine.fn)
        ELSE c[k].m

\* LogClass.__call__(klas), klas being the class just defined
Bind(d) ==
    /\ defined > 0
    /\ deco[d].created
    /\ cls[defined].loghook = 0
    /\ LET k == defined
           par == cls[k].parent
           self == deco[d]
           hooked == GetLoghook(cls, par) # 0
           pargs == IF hooked THEN deco[GetLoghook(cls, par)].args ELSE NoneArgs
           newargs == EffectiveArgs(self.args, hooked, pargs)
       IN
       /\ deco' = [deco EXCEPT ![d] = [created |-> TRUE, args |-> newargs,
                                       original_init |-> GetInit(cls, k)]]
       /\ cls' = [cls EXCEPT ![k] =
                    [@ EXCEPT
                       !.subdecorate = IF keyIsTrue(self.args, "subdecorate")
                                       THEN d ELSE @,
                       !.m = Subdecorated(cls, k),
                       !.init = InitClosure(k, d),
                       !.loghook = d,
                       !.before = GetInit(cls, k),
                       !.inherited = hooked /\ Falsy(self.args),
                       !.ppolicy = pargs,
                       !.bound = newargs]]
    /\ inst' = NoInst
    /\ UNCHANGED defined

\* self.args["inherit_logger"] handed to keyIsTrue as its only argument:
\* the subscript raises on None and on a missing key, and the call itself
\* raises for want of the second positional argument
InheritLookup(a) ==
    IF a.none THEN "TypeError"
    ELSE IF "inherit_logger" \notin DOMAIN a.map THEN "KeyError"
    ELSE "TypeError"

\* the condition of the first 'if' of _init: 'or' evaluates its right operand
\* only when the instance already has a truthy logger
SetLoggerTest(a, has) == IF ~has THEN "set" ELSE InheritLookup(a)

\* runs function fn as a constructor on the instance described by st
RECURSIVE Run(_, _, _, _, _)
Run(c, dc, fn, st, fuel) ==
    IF fuel = 0 THEN [st EXCEPT !.raised = "RecursionError"]
    ELSE IF fn.kind = "_init" THEN
        LET self == dc[fn.d]
            has == st.logger # NoLogger
            test == SetLoggerTest(self.args, has)
        IN  IF test # "set" /\ test # "keep"
            THEN [st EXCEPT
                    !.raised = test,
                    !.steps = Append(@, [on |-> fn.k, d |-> fn.d,
                                         args |-> self.args,
                                         before |-> st.logger,
                                         after |-> st.logger,
                                         called |-> NoFn, raised |-> test])]
            ELSE
              LET lg == IF test = "set" THEN getLogger(st.k) ELSE st.logger
                  lv == IF ~Falsy(self.args) /\ "level" \in DOMAIN self.args.map
                        THEN st.levels \cup {<<lg, self.args.map["level"]>>}
                        ELSE st.levels
                  st1 == [st EXCEPT
                            !.logger = lg,
                            !.levels = lv,
                            !.steps = Append(@, [on |-> fn.k, d |-> fn.d,
                                                 args |-> self.args,
                                                 before |-> st.logger,
                                                 after |-> lg,
                                                 called |-> self.original_init,
                                                 raised |-> "none"])]
              IN  IF self.original_init.kind # "none"
                  THEN Run(c, dc, self.original_init, st1, fuel - 1)
                  ELSE st1
    ELSE IF fn.kind = "user" THEN
        LET ui == c[fn.k].userinit
            st1 == [st EXCEPT !.ran = Append(@, [k |-> fn.k, a |-> st.a])]
        IN  IF ui = "nosuper" THEN st1
            ELSE Run(c, dc, GetInit(c, c[fn.k].parent), st1, fuel - 1)
    ELSE st     \* object.__init__

\* K(a): a new instance of class k, initialised by K.__init__
Construct(k, a) ==
    /\ k \in 1..defined
    /\ inst' = Run(cls, deco, GetInit(cls, k),
                   [NoInst EXCEPT !.k = k, !.a = a], MaxDepth)
    /\ UNCHANGED <<defined, cls, deco>>

----------------------------------------------------------------------------
(* Specifications                                                          *)

Init == CallInit /\ BindInit

NextCall ==
    \/ \E p \in CallPolicies : Decorate(p)
    \/ \E a \in ArgShapes : Invoke(a)
    \/ TraceIn
    \/ CallFn
    \/ TraceOut
    \/ GetFrame
    \/ LogF
    \/ Except
    \/ Finally
    \/ Resume

NextMembers ==
    \/ \E par \in 0..MaxClasses, mem \in Members : DefineClass(par, "none", mem)
    \/ \E d \in Decos, a \in MemberPolicies : NewLogClass(d, a)
    \/ \E d \in Decos : Bind(d)

NextCtor ==
    \/ /\ defined < MaxCtorClasses
       /\ \E par \in 0..MaxClasses, ui \in UserInitKinds :
              DefineClass(par, ui, NoMember)
    \/ \E d \in Decos, a \in CtorPolicies : NewLogClass(d, a)
    \/ \E d \in Decos : Bind(d)
    \/ \E k \in Classes, a \in CtorArgs : Construct(k, a)

SpecCall == Init /\ [][NextCall /\ UNCHANGED bindvars]_vars

SpecMembers == Init /\ [][NextMembers /\ UNCHANGED callvars]_vars

SpecCtor == Init /\ [][NextCtor /\ UNCHANGED callvars]_vars

----------------------------------------------------------------------------
(* Properties of the call interceptor (checked under SpecCall)             *)

Count(seq, x) == Cardinality({i \in 1..Len(seq) : seq[i] = x})
Has(seq, x) == Count(seq, x) > 0
Pos(seq, x) == CHOOSE i \in 1..Len(seq) : seq[i] = x

\* the call passes a first argument and the policy declares the paired trace
TracingCall == classfn /\ Tracing(wrapped.self)

\* the invocation left wrapped_f from inside the first try statement
EscapedFirstTry == outcome.kind = "raised" /\ ~outcome.exc.isExc

\* sys._getframe(1) failed in this invocation
FrameCaptureFailed == inflight.src = "delframe"

\* C1: call transparency.  When a wrapped call is over, f was executed exactly
\* once, and the caller got f's return value if f returned and f's own
\* exception if f raised.
C1_CallTransparency ==
    pc = "done" =>
        /\ Count(events, "fn") = 1
        /\ fout.kind = "returned" => outcome = Returned(fout.val)
        /\ fout.kind = "raised" => outcome = Raised(fout.exc)

\* C2: the original exception has priority.  Whenever f raised E and the
\* wrapped call ends by raising, the exception delivered is E, whatever the
\* logging step did.
C2_OriginalExceptionPriority ==
    (pc = "done" /\ fout.kind = "raised" /\ outcome.kind = "raised")
        => outcome.exc = fout.exc

\* C3: the crash sentinel is never returned.  Whenever f raised, the wrapped
\* call does not return normally.
C3_SentinelNeverReturned ==
    (pc = "done" /\ fout.kind = "raised") => outcome.kind # "returned"

\* C8: an introspection failure is surfaced when nothing else failed.  When f
\* returned normally, no trace emission failed and capturing the caller's frame
\* failed, the wrapped call raises that failure instead of returning.
C8_IntrospectionFailureSurfaced ==
    (pc = "done" /\ fout.kind = "returned" /\ err = NoExc /\ FrameCaptureFailed)
        => outcome = Raised(FrameError)

\* the events of an invocation in which nothing but f may fail
ExpectedEvents ==
    (IF TracingCall THEN <<"trace_in">> ELSE <<>>)
    \o <<"fn">>
    \o (IF TracingCall /\ fout.kind = "returned" THEN <<"trace_out">> ELSE <<>>)
    \o <<"log_f">>

----------------------------------------------------------------------------
(* Properties of construction (checked under SpecCtor)                     *)

Steps == 1..Len(inst.steps)

\* C4: bound-context rule of the replacement constructor.  Every run of _init
\* on an instance with a truthy logger under inherit_logger true keeps that
\* logger; every other run sets the logger named after the instance's type;
\* and in both cases construction goes on with the original constructor.
C4_BoundContextRule ==
    \A i \in Steps :
        LET s == inst.steps[i] IN
        /\ s.raised = "none"
        /\ IF s.before # NoLogger /\ keyIsTrue(s.args, "inherit_logger")
           THEN s.after = s.before
           ELSE s.after = getLogger(inst.k)

\* C5: policy lookups never raise.  No construction ends with the KeyError or
\* TypeError of a policy lookup.
C5_PolicyLookupsNeverRaise ==
    inst.raised \notin {"KeyError", "TypeError"}

\* C7: policy inheritance.  A class bound without a policy of its own under a
\* bound ancestor gets the ancestor's recorded policy P as its effective
\* policy; it keeps it, and its constructor names the logger and applies the
\* level exactly as with P given explicitly.
C7_PolicyInheritance ==
    \A k \in 1..defined :
        cls[k].inherited =>
            LET P == cls[k].ppolicy
                d == cls[k].loghook
                explicit == [deco EXCEPT ![d].args = P]
            IN  /\ cls[k].bound = P
                /\ ~Falsy(P) =>
                      /\ deco[d].args = P
                      /\ inst.k = k =>
                            /\ inst = Run(cls, explicit, GetInit(cls, k),
                                          [NoInst EXCEPT !.k = k, !.a = inst.a],
                                          MaxDepth)
                            /\ inst.steps[1].after = getLogger(k)
                            /\ inst.levels =
                                  IF haskey(P, "level")
                                  THEN {<<getLogger(k), P.map["level"]>>}
                                  ELSE {}

\* an instance of a class that inherited a policy with a level: its logger is
\* named after the class and has the level
C7_Witness ==
    \E k \in 1..defined :
        /\ cls[k].inherited
        /\ haskey(cls[k].ppolicy, "level")
        /\ inst.k = k
        /\ inst.logger = getLogger(k)
        /\ <<getLogger(k), "WARNING">> \in inst.levels

\* C10: each bound type keeps its own original constructor.  Every run of the
\* replacement constructor installed on class T that gets as far as its last
\* statement calls the constructor T had just before it was bound, and every
\* user constructor receives the arguments of the construction.
C10_OwnOriginalConstructor ==
    /\ \A i \in Steps :
          inst.steps[i].raised = "none" =>
              inst.steps[i].called = cls[inst.steps[i].on].before
    /\ \A i \in 1..Len(inst.ran) : inst.ran[i].a = inst.a

----------------------------------------------------------------------------
(* Properties of member propagation (checked under SpecMembers)            *)

RECURSIVE IsAncestor(_, _, _)
IsAncestor(c, t, s) ==
    /\ s # 0
    /\ \/ c[s].parent = t
       \/ IsAncestor(c, t, c[s].parent)

\* C6: propagation of wrapping to overrides.  If T is bound with subdecorate
\* and defines m wrapped with a subdecorate policy, every bound descendant S of
\* T, at any depth, that defined a plain m of its own has m wrapped with T's
\* interception policy.
C6_PropagationToOverrides ==
    \A t \in 1..defined, s \in 1..defined :
        ( /\ IsAncestor(cls, t, s)
          /\ cls[t].subdecorate # 0
          /\ cls[t].mdef = "wrapped"
          /\ cls[t].m.subdecorate
          /\ cls[s].loghook # 0
          /\ cls[s].mdef = "plain" )
        => /\ cls[s].m.kind = "wrapped"
           /\ cls[s].m.loghook
           /\ cls[s].m.self = cls[t].m.self

====
